---- MODULE Spec2Model ----
(***************************************************************************)
(* asm-lsp: the language server's startup (main) and its request dispatch  *)
(* loop (main_loop), src/bin/main.rs.                                      *)
(*                                                                         *)
(* Strings are sequences of code points (ASCII numbers), so that case      *)
(* folding, word extraction and concatenation are computed, not assumed.   *)
(* The library crate's functions that main.rs calls (the opcode loader,    *)
(* filter_targets, populate_name_to_instruction_map, the word extractor,   *)
(* the Display of an Instruction) are modelled from the specification.     *)
(***************************************************************************)
EXTENDS Integers, Sequences, FiniteSets, TLC

\* ------------------------------------------------------------------ bounds
\* The client puts at most MaxMsgs messages on the inbound channel.
MaxMsgs == 2

\* ------------------------------------------------------------- text helpers
Arch == {"X86", "X86_64"}

Dialects == {"gas", "go"}

IsUpper(c) == c >= 65 /\ c <= 90

IsLower(c) == c >= 97 /\ c <= 122

IsDigit(c) == c >= 48 /\ c <= 57

\* char::to_lowercase on one code point (ASCII range)
LowerChar(c) == IF IsUpper(c) THEN c + 32 ELSE c

\* str::to_lowercase
Lowercase(s) == [i \in 1..Len(s) |-> LowerChar(s[i])]

\* word characters: alphanumeric, underscore (95), percent sign (37)
IsWordChar(c) == IsUpper(c) \/ IsLower(c) \/ IsDigit(c) \/ c = 95 \/ c = 37

\* Option<T>: None is the empty sequence, Some(v) the one-element sequence
None == <<>>

Some(v) == <<v>>

IsSome(o) == Len(o) = 1

\* ------------------------------------------------- the embedded databases
\* "MOV", "AAA", "CDQ", "UD2" and the summaries, as code points
N_MOV == <<77, 79, 86>>

N_AAA == <<65, 65, 65>>

N_CDQ == <<67, 68, 81>>

N_UD2 == <<85, 68, 50>>

Form(sig, ds) == [sig |-> sig, dialects |-> ds]

Instr(name, summary, forms) ==
    [name |-> name, arch |-> "none", summary |-> summary, forms |-> forms]

\* the records of opcodes/x86.xml, in the order of the description
Xml_x86 ==
    << Instr(N_MOV, <<109>>, <<Form(1, {"gas", "go"}), Form(2, {"gas"})>>),
       Instr(N_AAA, <<97>>, <<Form(3, {"go"})>>),
       Instr(N_UD2, <<117>>, <<>>) >>

\* the records of opcodes/x86_64.xml, in the order of the description
Xml_x86_64 ==
    << Instr(N_MOV, <<113>>, <<Form(4, {"gas", "go"})>>),
       Instr(N_CDQ, <<99>>, <<Form(5, {"gas"}), Form(6, {"gas"})>>) >>

\* populate_instructions: Ok(records) or a ParseError
ParseError == [ok |-> FALSE, value |-> <<>>]

populate_instructions(xml, wellFormed) ==
    IF wellFormed THEN [ok |-> TRUE, value |-> xml] ELSE ParseError

\* ------------------------------------------------------------ target filter
RECURSIVE SelectForms(_, _)
SelectForms(forms, enabled) ==
    IF forms = <<>> THEN <<>>
    ELSE LET rest == SelectForms(Tail(forms), enabled)
         IN  IF Head(forms).dialects \cap enabled # {}
             THEN <<Head(forms)>> \o rest
             ELSE rest

\* filter_targets(&instruction, &target_config): a new Instruction whose
\* forms are those recognised by an enabled dialect
filter_targets(instruction, config) ==
    [instruction EXCEPT !.forms = SelectForms(instruction.forms, config.dialects)]

\* ------------------------------------------------------- instruction storage
\* the tag of the first block copied into the second: always Arch::X86
SetArch_AlwaysX86(instruction, arch) == [instruction EXCEPT !.arch = "X86"]

\* instruction.arch = Some(arch)
SetArch(instruction, arch) == [instruction EXCEPT !.arch = arch]

RECURSIVE NonEmptyForms(_)
NonEmptyForms(instrs) ==
    IF instrs = <<>> THEN <<>>
    ELSE IF Head(instrs).forms # <<>>
         THEN <<Head(instrs)>> \o NonEmptyForms(Tail(instrs))
         ELSE NonEmptyForms(Tail(instrs))

\* the pipeline without its .filter(|instruction| !instruction.forms.is_empty())
Pipeline_KeepsEmpty(records, arch, config) ==
    [i \in 1..Len(records) |-> filter_targets(SetArch(records[i], arch), config)]

\* .map(arch = Some(a)).map(filter_targets).filter(!forms.is_empty()).collect()
Pipeline(records, arch, config) ==
    NonEmptyForms([i \in 1..Len(records) |->
                      filter_targets(SetArch(records[i], arch), config)])

Ok(v) == [ok |-> TRUE, value |-> v]

\* the x86 storage with the loader's error swallowed (unwrap_or_default
\* in place of ?)
X86Instructions_SwallowsParseError(config, wellFormed) ==
    IF config.x86
    THEN LET parsed == populate_instructions(Xml_x86, wellFormed)
         IN  Ok(Pipeline(parsed.value, "X86", config))
    ELSE Ok(<<>>)

\* the x86 storage built without looking at instruction_sets.x86
X86Instructions_AlwaysLoads(config, wellFormed) ==
    LET parsed == populate_instructions(Xml_x86, wellFormed)
    IN  IF parsed.ok THEN Ok(Pipeline(parsed.value, "X86", config)) ELSE ParseError

\* let x86_instructions = if target_config.instruction_sets.x86 {
\*     populate_instructions(xml)?. ... .collect() } else { Vec::new() };
\* the result is the ParseError when the ? returns early
X86Instructions(config, wellFormed) ==
    IF config.x86
    THEN LET parsed == populate_instructions(Xml_x86, wellFormed)
         IN  IF parsed.ok THEN Ok(Pipeline(parsed.value, "X86", config)) ELSE ParseError
    ELSE Ok(<<>>)

\* let x86_64_instructions = if target_config.instruction_sets.x86_64 {
\*     populate_instructions(xml)?. ... .collect() } else { Vec::new() };
X8664Instructions(config, wellFormed) ==
    IF config.x86_64
    THEN LET parsed == populate_instructions(Xml_x86_64, wellFormed)
         IN  IF parsed.ok THEN Ok(Pipeline(parsed.value, "X86_64", config)) ELSE ParseError
    ELSE Ok(<<>>)

\* ------------------------------------------------------------------- index
EmptyMap == [k \in {} |-> 0]

MapInsert(map, key, value) ==
    [k \in (DOMAIN map) \cup {key} |-> IF k = key THEN value ELSE map[k]]

\* populate_name_to_instruction_map(arch, &instructions, &mut map):
\* every instruction under (arch, lowercase(name)), the last insertion wins
RECURSIVE populate_name_to_instruction_map(_, _, _)
populate_name_to_instruction_map(arch, instrs, map) ==
    IF instrs = <<>> THEN map
    ELSE populate_name_to_instruction_map(arch, Tail(instrs),
             MapInsert(map, <<arch, Lowercase(Head(instrs).name)>>, Head(instrs)))

\* names_to_instructions as main builds it: x86 first, then x86_64
BuildIndex(x86, x86_64) ==
    populate_name_to_instruction_map("X86_64", x86_64,
        populate_name_to_instruction_map("X86", x86, EmptyMap))

\* HashMap::get
MapGet(map, key) == IF key \in DOMAIN map THEN Some(map[key]) ELSE None

\* ------------------------------------------------ rendered documentation
ArchTag(arch) == IF arch = "X86" THEN <<120, 56, 54>> ELSE <<120, 56, 54, 45, 54, 52>>

RECURSIVE RenderForms(_)
RenderForms(forms) ==
    IF forms = <<>> THEN <<>>
    ELSE <<10, 43, 48 + Head(forms).sig>> \o RenderForms(Tail(forms))

\* format!("{}", instruction): name, architecture, summary, one line per form
Render(instruction) ==
    instruction.name \o <<32, 91>> \o ArchTag(instruction.arch) \o <<93, 10>>
        \o instruction.summary \o RenderForms(instruction.forms)

\* --------------------------------------------------- document token extractor
\* the document the hover requests point into:
\*   line 0  "mov eax, ebx"   line 1  ""   line 2  "MOV %eax"   line 3  "cdq"
Document ==
    << <<109, 111, 118, 32, 101, 97, 120, 44, 32, 101, 98, 120>>,
       <<>>,
       <<77, 79, 86, 32, 37, 101, 97, 120>>,
       <<99, 100, 113>> >>

NotFound == [ok |-> FALSE, value |-> <<>>]

\* first index of the run of word characters that contains index i (1-based)
RECURSIVE WordStart(_, _)
WordStart(line, i) ==
    IF i > 1 /\ IsWordChar(line[i - 1]) THEN WordStart(line, i - 1) ELSE i

\* last index of the run of word characters that contains index i (1-based)
RECURSIVE WordEnd(_, _)
WordEnd(line, i) ==
    IF i < Len(line) /\ IsWordChar(line[i + 1]) THEN WordEnd(line, i + 1) ELSE i

\* the extractor stopping at the cursor: the word from its start up to the
\* cursor position only
WordAt_PrefixOnly(doc, line, col) ==
    IF line >= Len(doc) THEN NotFound
    ELSE LET text == doc[line + 1]
         IN  IF col >= Len(text) THEN NotFound
             ELSE IF ~IsWordChar(text[col + 1]) THEN NotFound
             ELSE [ok |-> TRUE,
                   value |-> SubSeq(text, WordStart(text, col + 1), col + 1)]

\* the word of the document at the zero-based (line, column) position
WordAt(doc, line, col) ==
    IF line >= Len(doc) THEN NotFound
    ELSE LET text == doc[line + 1]
         IN  IF col >= Len(text) THEN NotFound
             ELSE IF ~IsWordChar(text[col + 1]) THEN NotFound
             ELSE [ok |-> TRUE,
                   value |-> SubSeq(text, WordStart(text, col + 1),
                                          WordEnd(text, col + 1))]

\* get_word_from_file_params(&params.text_document_position_params)
get_word_from_file_params(params) == WordAt(Document, params.line, params.col)

\* --------------------------------------------------------------- messages
HoverMethod == "textDocument/hover"

ShutdownMethod == "shutdown"

OtherMethod == "textDocument/definition"

ExitMethod == "exit"

OtherNotification == "textDocument/didOpen"

\* JSON values a Response carries in its result field
JsonEmptyString == [tag |-> "string", kind |-> "none", value |-> <<>>]

JsonNull == [tag |-> "null", kind |-> "none", value |-> <<>>]

\* serde_json::to_value(Some(Hover { contents: Markup { Markdown, value }, range: None }))
JsonHover(value) == [tag |-> "hover", kind |-> "markdown", value |-> value]

NoParams == [decodes |-> FALSE, line |-> 0, col |-> 0]

NoResult == [tag |-> "absent", kind |-> "none", value |-> <<>>]

Request(id, method, params) ==
    [kind |-> "Request", id |-> id, method |-> method, params |-> params,
     result |-> NoResult, error |-> "none"]

Notification(method) ==
    [kind |-> "Notification", id |-> 0, method |-> method, params |-> NoParams,
     result |-> NoResult, error |-> "none"]

\* Response { id, result: Some(result), error: None }
Response(id, result) ==
    [kind |-> "Response", id |-> id, method |-> "none", params |-> NoParams,
     result |-> result, error |-> "none"]

\* cursor positions the client asks about: inside "mov", inside "MOV",
\* inside "eax", on the space after "mov", on "cdq"
Probes == {<<0, 1>>, <<2, 1>>, <<0, 5>>, <<0, 3>>, <<3, 0>>}

HoverParams ==
    {[decodes |-> TRUE, line |-> p[1], col |-> p[2]] : p \in Probes} \cup {NoParams}

\* what the client may send as its message number id
ClientMessages(id) ==
    {Request(id, ShutdownMethod, NoParams), Request(id, OtherMethod, NoParams)}
        \cup {Request(id, HoverMethod, p) : p \in HoverParams}
        \cup {Notification(ExitMethod), Notification(OtherNotification)}
        \cup {Response(id, JsonNull)}

\* Request::extract(method) as cast::<HoverRequest> uses it: Err on another
\* method and on parameters that do not deserialize
cast(req) ==
    IF req.method # HoverMethod THEN [ok |-> FALSE, id |-> req.id, params |-> NoParams]
    ELSE IF ~req.params.decodes THEN [ok |-> FALSE, id |-> req.id, params |-> NoParams]
    ELSE [ok |-> TRUE, id |-> req.id, params |-> req.params]

\* the hover value with the separator left out
HoverValue_NoSeparator(x86_instruction, x86_64_instruction) ==
    (IF IsSome(x86_instruction) THEN Render(x86_instruction[1]) ELSE <<>>)
        \o (IF IsSome(x86_64_instruction) THEN Render(x86_64_instruction[1]) ELSE <<>>)

\* the value of the Markdown hover: x86 section, then "\n\n" and the x86_64
\* section (the separator only when both are present)
HoverValue(x86_instruction, x86_64_instruction) ==
    (IF IsSome(x86_instruction) THEN Render(x86_instruction[1]) ELSE <<>>)
        \o (IF IsSome(x86_64_instruction)
            THEN (IF IsSome(x86_instruction) THEN <<10, 10>> ELSE <<>>)
                     \o Render(x86_64_instruction[1])
            ELSE <<>>)

\* the hover arm looking up the lower-cased word instead of the word itself
HoverResponse_LowercasesToken(id, params, index) ==
    LET res  == Response(id, JsonEmptyString)
        word == get_word_from_file_params(params)
    IN  IF word.ok
        THEN LET x86_instruction    == MapGet(index, <<"X86", Lowercase(word.value)>>)
                 x86_64_instruction == MapGet(index, <<"X86_64", Lowercase(word.value)>>)
             IN  IF IsSome(x86_instruction) \/ IsSome(x86_64_instruction)
                 THEN Response(id, JsonHover(HoverValue(x86_instruction, x86_64_instruction)))
                 ELSE res
        ELSE res

\* the hover arm answering null instead of "" when nothing is found
HoverResponse_NullWhenUnknown(id, params, index) ==
    LET res  == Response(id, JsonNull)
        word == get_word_from_file_params(params)
    IN  IF word.ok
        THEN LET x86_instruction    == MapGet(index, <<"X86", word.value>>)
                 x86_64_instruction == MapGet(index, <<"X86_64", word.value>>)
             IN  IF IsSome(x86_instruction) \/ IsSome(x86_64_instruction)
                 THEN Response(id, JsonHover(HoverValue(x86_instruction, x86_64_instruction)))
                 ELSE res
        ELSE res

\* the Response main_loop sends for a hover request that cast accepted
HoverResponse(id, params, index) ==
    LET res  == Response(id, JsonEmptyString)
        word == get_word_from_file_params(params)
    IN  IF word.ok
        THEN LET x86_instruction    == MapGet(index, <<"X86", word.value>>)
                 x86_64_instruction == MapGet(index, <<"X86_64", word.value>>)
             IN  IF IsSome(x86_instruction) \/ IsSome(x86_64_instruction)
                 THEN Response(id, JsonHover(HoverValue(x86_instruction, x86_64_instruction)))
                 ELSE res
        ELSE res

\* ------------------------------------------------------------------ state
VARIABLES
    config,               \* target_config: [x86, x86_64, dialects]
    xmlOk,                \* whether each embedded description parses
    x86_instructions,     \* storage of main, line 40
    x86_64_instructions,  \* storage of main, line 59
    names_to_instructions,\* the index of main, line 78
    pc,                   \* "start", "failed", "idle", "awaitExit", "returned"
    inbox,                \* connection.receiver: messages not yet received
    inClosed,             \* every sender of connection.receiver is gone
    sent,                 \* number of messages the client has sent
    outbox,               \* messages accepted by connection.sender, in order
    writerAlive,          \* the receiving end of connection.sender exists
    result,               \* what main / main_loop returned: "none", "Ok", "Err"
    returns,              \* how many times main_loop has returned
    received,             \* messages the for loop of main_loop has taken
    dispatched,           \* ids that reached the hover arm, in order
    exDoc,                \* extractor run: the document text, a sequence of lines
    exLine,               \* extractor run: zero-based line of the cursor
    exCol,                \* extractor run: zero-based column of the cursor
    exStage,              \* extractor run: "off", "input", "extracted", "dispatched"
    exWord,               \* extractor run: the Result of the extractor
    exResponse            \* extractor run: the Response built from exWord

vars == <<config, xmlOk, x86_instructions, x86_64_instructions,
          names_to_instructions, pc, inbox, inClosed, sent, outbox,
          writerAlive, result, returns, received, dispatched,
          exDoc, exLine, exCol, exStage, exWord, exResponse>>

extraction == <<exDoc, exLine, exCol, exStage, exWord, exResponse>>

startup == <<config, xmlOk, x86_instructions, x86_64_instructions,
             names_to_instructions>>

Configs == [x86 : BOOLEAN, x86_64 : BOOLEAN, dialects : SUBSET Dialects]

\* everything but the parse outcome of the embedded descriptions
InitRest ==
    /\ config \in Configs
    /\ x86_instructions = <<>>
    /\ x86_64_instructions = <<>>
    /\ names_to_instructions = EmptyMap
    /\ pc = "start"
    /\ inbox = <<>>
    /\ inClosed = FALSE
    /\ sent = 0
    /\ outbox = <<>>
    /\ writerAlive = TRUE
    /\ result = "none"
    /\ returns = 0
    /\ received = <<>>
    /\ dispatched = <<>>

\* no separate run of the extractor
ExOff ==
    /\ exDoc = <<>>
    /\ exLine = 0
    /\ exCol = 0
    /\ exStage = "off"
    /\ exWord = NotFound
    /\ exResponse = Response(0, JsonNull)

\* the embedded descriptions are the well-formed ones the server ships with
Init ==
    /\ xmlOk = [a \in Arch |-> TRUE]
    /\ InitRest
    /\ ExOff

\* --------------------------------------------------------------------- main
\* main, lines 40-86: build both storages and the index, enter main_loop;
\* a ParseError leaves main through the ? before the index exists
Startup ==
    /\ pc = "start"
    /\ LET a == X86Instructions(config, xmlOk["X86"])
           b == X8664Instructions(config, xmlOk["X86_64"])
       IN  IF a.ok /\ b.ok
           THEN /\ x86_instructions' = a.value
                /\ x86_64_instructions' = b.value
                /\ names_to_instructions' = BuildIndex(a.value, b.value)
                /\ pc' = "idle"
                /\ result' = result
           ELSE /\ pc' = "failed"
                /\ result' = "Err"
                /\ UNCHANGED <<x86_instructions, x86_64_instructions,
                               names_to_instructions>>
    /\ UNCHANGED <<extraction, config, xmlOk, inbox, inClosed, sent, outbox,
                   writerAlive, returns, received, dispatched>>

\* --------------------------------------------------------------- environment
\* the server process is running: main has not returned
Running == pc \in {"start", "idle", "awaitExit"}

IsExit(msg) == msg.kind = "Notification" /\ msg.method = ExitMethod

\* the client writes one more message; the reader thread queues it, and
\* stops reading after an exit notification
ClientSend ==
    /\ Running
    /\ sent < MaxMsgs
    /\ ~inClosed
    /\ \E m \in ClientMessages(sent + 1) :
           /\ inbox' = Append(inbox, m)
           /\ inClosed' = IsExit(m)
    /\ sent' = sent + 1
    /\ UNCHANGED <<extraction, startup, pc, outbox, writerAlive, result, returns,
                   received, dispatched>>

\* the reader thread ends (end of input): the inbound channel disconnects
ClientClose ==
    /\ Running
    /\ ~inClosed
    /\ inClosed' = TRUE
    /\ UNCHANGED <<extraction, startup, pc, inbox, sent, outbox, writerAlive, result,
                   returns, received, dispatched>>

\* the writer thread ends (output closed): connection.sender.send fails from now on
WriterStops ==
    /\ Running
    /\ writerAlive
    /\ writerAlive' = FALSE
    /\ UNCHANGED <<extraction, startup, pc, inbox, inClosed, sent, outbox, result, returns,
                   received, dispatched>>

\* ---------------------------------------------------------------- main_loop
IsShutdown(msg) == msg.kind = "Request" /\ msg.method = ShutdownMethod

\* for msg in &connection.receiver: the loop holds the next message
Receiving == pc = "idle" /\ inbox # <<>>

\* the message is taken from the channel
Take ==
    /\ inbox' = Tail(inbox)
    /\ received' = Append(received, Head(inbox))

\* the shutdown arm without its return: the loop goes on receiving
RecvShutdown_KeepsLooping ==
    /\ Receiving
    /\ IsShutdown(Head(inbox))
    /\ Take
    /\ outbox' = IF writerAlive
                 THEN Append(outbox, Response(Head(inbox).id, JsonNull))
                 ELSE outbox
    /\ pc' = "idle"
    /\ UNCHANGED <<extraction, startup, inClosed, sent, writerAlive, result, returns, dispatched>>

\* connection.handle_shutdown(&req), first half: answer the shutdown request
\* with a null result (a failed send is ignored) and wait for the exit
\* notification
RecvShutdown ==
    /\ Receiving
    /\ IsShutdown(Head(inbox))
    /\ Take
    /\ outbox' = IF writerAlive
                 THEN Append(outbox, Response(Head(inbox).id, JsonNull))
                 ELSE outbox
    /\ pc' = "awaitExit"
    /\ UNCHANGED <<extraction, startup, inClosed, sent, writerAlive, result, returns, dispatched>>

\* handle_shutdown, second half: the next message is the exit notification
\* (Ok(true), main_loop returns Ok) or anything else (Err, propagated by ?)
AwaitExitRecv ==
    /\ pc = "awaitExit"
    /\ inbox # <<>>
    /\ inbox' = Tail(inbox)
    /\ result' = IF IsExit(Head(inbox)) THEN "Ok" ELSE "Err"
    /\ pc' = "returned"
    /\ returns' = returns + 1
    /\ UNCHANGED <<extraction, startup, inClosed, sent, outbox, writerAlive, received, dispatched>>

\* handle_shutdown, second half: recv_timeout ends with a timeout or with a
\* disconnected channel; main_loop returns the error
AwaitExitTimeout ==
    /\ pc = "awaitExit"
    /\ inbox = <<>>
    /\ result' = "Err"
    /\ pc' = "returned"
    /\ returns' = returns + 1
    /\ UNCHANGED <<extraction, startup, inbox, inClosed, sent, outbox, writerAlive, received,
                   dispatched>>

\* the hover arm sending its response twice
RecvHover_SendsTwice ==
    /\ Receiving
    /\ Head(inbox).kind = "Request"
    /\ ~IsShutdown(Head(inbox))
    /\ cast(Head(inbox)).ok
    /\ Take
    /\ dispatched' = Append(dispatched, Head(inbox).id)
    /\ LET c == cast(Head(inbox))
           r == HoverResponse(c.id, c.params, names_to_instructions)
       IN  IF writerAlive
           THEN /\ outbox' = outbox \o <<r, r>>
                /\ UNCHANGED <<pc, result, returns>>
           ELSE /\ pc' = "returned"
                /\ result' = "Err"
                /\ returns' = returns + 1
                /\ outbox' = outbox
    /\ UNCHANGED <<extraction, startup, inClosed, sent, writerAlive>>

\* the hover arm dropping the index entries it has looked up
RecvHover_EvictsIndex ==
    /\ Receiving
    /\ Head(inbox).kind = "Request"
    /\ ~IsShutdown(Head(inbox))
    /\ cast(Head(inbox)).ok
    /\ Take
    /\ dispatched' = Append(dispatched, Head(inbox).id)
    /\ names_to_instructions' = EmptyMap
    /\ LET c == cast(Head(inbox))
       IN  IF writerAlive
           THEN /\ outbox' = Append(outbox, HoverResponse(c.id, c.params, names_to_instructions))
                /\ UNCHANGED <<pc, result, returns>>
           ELSE /\ pc' = "returned"
                /\ result' = "Err"
                /\ returns' = returns + 1
                /\ outbox' = outbox
    /\ UNCHANGED <<extraction, config, xmlOk, x86_instructions,
                   x86_64_instructions, inClosed, sent, writerAlive>>

\* Ok((id, params)) arm, lines 109-180: exactly one send; a failed send
\* leaves main_loop through the ?
RecvHover ==
    /\ Receiving
    /\ Head(inbox).kind = "Request"
    /\ ~IsShutdown(Head(inbox))
    /\ cast(Head(inbox)).ok
    /\ Take
    /\ dispatched' = Append(dispatched, Head(inbox).id)
    /\ LET c == cast(Head(inbox))
       IN  IF writerAlive
           THEN /\ outbox' = Append(outbox, HoverResponse(c.id, c.params, names_to_instructions))
                /\ UNCHANGED <<pc, result, returns>>
           ELSE /\ pc' = "returned"
                /\ result' = "Err"
                /\ returns' = returns + 1
                /\ outbox' = outbox
    /\ UNCHANGED <<extraction, startup, inClosed, sent, writerAlive>>

\* the Err(req) arm propagating the error of cast with ?: main_loop returns
RecvInvalid_Returns ==
    /\ Receiving
    /\ Head(inbox).kind = "Request"
    /\ ~IsShutdown(Head(inbox))
    /\ ~cast(Head(inbox)).ok
    /\ Take
    /\ pc' = "returned"
    /\ result' = "Err"
    /\ returns' = returns + 1
    /\ UNCHANGED <<extraction, startup, inClosed, sent, outbox, writerAlive, dispatched>>

\* the Err(req) arm answering the request with an error response
RecvInvalid_RepliesError ==
    /\ Receiving
    /\ Head(inbox).kind = "Request"
    /\ ~IsShutdown(Head(inbox))
    /\ ~cast(Head(inbox)).ok
    /\ Take
    /\ outbox' = Append(outbox,
                     [Response(Head(inbox).id, NoResult) EXCEPT !.error = "InvalidRequest"])
    /\ UNCHANGED <<extraction, startup, pc, inClosed, sent, writerAlive, result, returns,
                   dispatched>>

\* Err(req) arm, lines 181-183: the request is logged, nothing is sent
RecvInvalid ==
    /\ Receiving
    /\ Head(inbox).kind = "Request"
    /\ ~IsShutdown(Head(inbox))
    /\ ~cast(Head(inbox)).ok
    /\ Take
    /\ UNCHANGED <<extraction, startup, pc, inClosed, sent, outbox, writerAlive, result,
                   returns, dispatched>>

\* Message::Response(_resp) => {}
RecvResponse ==
    /\ Receiving
    /\ Head(inbox).kind = "Response"
    /\ Take
    /\ UNCHANGED <<extraction, startup, pc, inClosed, sent, outbox, writerAlive, result,
                   returns, dispatched>>

\* the notification arm ending the loop on an exit notification
RecvNotification_ExitReturns ==
    /\ Receiving
    /\ Head(inbox).kind = "Notification"
    /\ Take
    /\ IF IsExit(Head(inbox))
       THEN pc' = "returned" /\ result' = "Ok" /\ returns' = returns + 1
       ELSE UNCHANGED <<pc, result, returns>>
    /\ UNCHANGED <<extraction, startup, inClosed, sent, outbox, writerAlive, dispatched>>

\* Message::Notification(_notification) => {}
RecvNotification ==
    /\ Receiving
    /\ Head(inbox).kind = "Notification"
    /\ Take
    /\ UNCHANGED <<extraction, startup, pc, inClosed, sent, outbox, writerAlive, result,
                   returns, dispatched>>

\* the iteration over connection.receiver ends when the channel is empty and
\* disconnected; main_loop returns Ok(()) at line 190
LoopEnd ==
    /\ pc = "idle"
    /\ inbox = <<>>
    /\ inClosed
    /\ pc' = "returned"
    /\ result' = "Ok"
    /\ returns' = returns + 1
    /\ UNCHANGED <<extraction, startup, inbox, inClosed, sent, outbox, writerAlive, received,
                   dispatched>>

Next ==
    \/ Startup
    \/ ClientSend
    \/ ClientClose
    \/ WriterStops
    \/ RecvShutdown
    \/ AwaitExitRecv
    \/ AwaitExitTimeout
    \/ RecvHover
    \/ RecvInvalid
    \/ RecvResponse
    \/ RecvNotification
    \/ LoopEnd

Spec == Init /\ [][Next]_vars

\* the embedded descriptions may be malformed
InitParse ==
    /\ xmlOk \in [Arch -> BOOLEAN]
    /\ InitRest
    /\ ExOff

SpecParse == InitParse /\ [][Next]_vars

\* ------------------------------------------------------- the extractor alone
\* lines of at most MaxLineLen characters over ExAlphabet
MaxLineLen == 3

\* "a", "B", "%", "_", " ", ","
ExAlphabet == {97, 66, 37, 95, 32, 44}

ExLines == UNION {[1..n -> ExAlphabet] : n \in 0..MaxLineLen}

\* the documents the extractor is run on: every one-line document over
\* ExLines, the one-line document "mov eax, ebx", and Document
ExDocs == {<<t>> : t \in ExLines} \cup {<<Document[1]>>, Document}

\* one column past the end of the longest line
ExCols(doc) ==
    LET longest == CHOOSE n \in {Len(doc[i]) : i \in 1..Len(doc)} :
                       \A i \in 1..Len(doc) : Len(doc[i]) <= n
    IN  0..(longest + 1)

InitExtract ==
    /\ xmlOk = [a \in Arch |-> TRUE]
    /\ InitRest
    /\ exDoc \in ExDocs
    /\ exLine \in 0..Len(exDoc)
    /\ exCol \in ExCols(exDoc)
    /\ exStage = "input"
    /\ exWord = NotFound
    /\ exResponse = Response(0, JsonNull)

\* let word = get_word_from_file_params(&params.text_document_position_params)
ExExtract ==
    /\ exStage = "input"
    /\ exWord' = WordAt(exDoc, exLine, exCol)
    /\ exStage' = "extracted"
    /\ UNCHANGED <<exDoc, exLine, exCol, exResponse>>
    /\ UNCHANGED <<startup, pc, inbox, inClosed, sent, outbox, writerAlive, result,
                   returns, received, dispatched>>

\* match word { .. }, lines 121-179, for a hover request on Document
ExDispatch ==
    /\ exStage = "extracted"
    /\ exDoc = Document
    /\ pc = "idle"
    /\ exResponse' = HoverResponse(1, [decodes |-> TRUE, line |-> exLine, col |-> exCol],
                                   names_to_instructions)
    /\ exStage' = "dispatched"
    /\ UNCHANGED <<exDoc, exLine, exCol, exWord>>
    /\ UNCHANGED <<startup, pc, inbox, inClosed, sent, outbox, writerAlive, result,
                   returns, received, dispatched>>

NextExtract ==
    \/ Startup
    \/ ExExtract
    \/ ExDispatch

SpecExtract == InitExtract /\ [][NextExtract]_vars

TypeOK ==
    /\ config \in Configs
    /\ pc \in {"start", "failed", "idle", "awaitExit", "returned"}
    /\ result \in {"none", "Ok", "Err"}
    /\ sent \in 0..MaxMsgs
    /\ returns \in 0..1
    /\ Len(inbox) + Len(received) <= sent

\* ------------------------------------------------------ reading the logs
\* positions in the log of received messages that hold a hover request
HoverRequests ==
    {i \in 1..Len(received) :
        received[i].kind = "Request" /\ received[i].method = HoverMethod}

\* positions in the outbound channel that hold a message with this id
Answers(id) == {j \in 1..Len(outbox) : outbox[j].id = id}

\* a Response whose result is the string "" and which has no error
IsEmptyResult(m) ==
    /\ m.kind = "Response"
    /\ m.result.tag = "string"
    /\ m.result.value = <<>>
    /\ m.error = "none"

Token(i) == get_word_from_file_params(received[i].params)

Matches(i, arch) == <<arch, Token(i).value>> \in DOMAIN names_to_instructions

\* a decodable hover request whose token is missing or in no architecture
Unmatched(i) ==
    /\ i \in HoverRequests
    /\ received[i].params.decodes
    /\ ~Token(i).ok \/ \A a \in Arch : ~Matches(i, a)

\* a decodable hover request whose token is indexed for some architecture
Matched(i) ==
    /\ i \in HoverRequests
    /\ received[i].params.decodes
    /\ Token(i).ok
    /\ \E a \in Arch : Matches(i, a)

\* ------------------------------------------------------------------ claims
\* C1: every hover request received before a shutdown request gets exactly
\* one response on the outbound channel, decodable parameters or not, and
\* when the parameters do not decode that response is the empty result.
\* (Stated while the outbound channel is connected.)
C1_EveryHoverAnsweredOnce ==
    writerAlive =>
        \A i \in HoverRequests :
            /\ Cardinality(Answers(received[i].id)) = 1
            /\ ~received[i].params.decodes =>
                   \A j \in Answers(received[i].id) : IsEmptyResult(outbox[j])

\* C2: a decodable hover request whose token extraction fails or whose token
\* matches no architecture is answered with result "" (present, not null)
\* and no error; the answers to "unknown token" and to "extraction failure"
\* differ in the request id only.
C2_UnmatchedGetsEmptyString ==
    \A i \in 1..Len(received) : Unmatched(i) =>
        \A j \in Answers(received[i].id) :
            /\ IsEmptyResult(outbox[j])
            /\ \A k \in 1..Len(received) : Unmatched(k) =>
                   \A l \in Answers(received[k].id) :
                       [outbox[j] EXCEPT !.id = 0] = [outbox[l] EXCEPT !.id = 0]

\* an extraction failure and an unknown token have both been answered
C2_Witness ==
    \E i, k \in 1..Len(received) :
        /\ Unmatched(i) /\ ~Token(i).ok /\ Answers(received[i].id) # {}
        /\ Unmatched(k) /\ Token(k).ok /\ Answers(received[k].id) # {}

\* the documentation the claim expects for a matched request
ExpectedValue(i) ==
    LET k86 == <<"X86", Token(i).value>>
        k64 == <<"X86_64", Token(i).value>>
    IN  IF Matches(i, "X86") /\ Matches(i, "X86_64")
        THEN Render(names_to_instructions[k86]) \o <<10, 10>>
                 \o Render(names_to_instructions[k64])
        ELSE IF Matches(i, "X86") THEN Render(names_to_instructions[k86])
        ELSE Render(names_to_instructions[k64])

\* C3: a hover request whose token is indexed for at least one architecture
\* is answered with a Markdown hover whose value is the x86 documentation,
\* then the x86_64 documentation, with "\n\n" between two sections and no
\* separator around a single one.
C3_MatchedGetsMarkdown ==
    \A i \in 1..Len(received) : Matched(i) =>
        \A j \in Answers(received[i].id) :
            /\ outbox[j].kind = "Response"
            /\ outbox[j].error = "none"
            /\ outbox[j].result.tag = "hover"
            /\ outbox[j].result.kind = "markdown"
            /\ outbox[j].result.value = ExpectedValue(i)

\* a two-section hover and a one-section hover have both been answered
C3_Witness ==
    \E i, k \in 1..Len(received) :
        /\ Matched(i) /\ Matches(i, "X86") /\ Matches(i, "X86_64")
        /\ Answers(received[i].id) # {}
        /\ Matched(k) /\ ~Matches(k, "X86") /\ Matches(k, "X86_64")
        /\ Answers(received[k].id) # {}

\* a shutdown request has been taken from the channel
ShutdownProcessed == \E i \in 1..Len(received) : IsShutdown(received[i])

\* C4: once a shutdown request is processed the loop is terminal: the
\* shutdown request is not dispatched as a hover request, nothing that
\* follows it is dispatched or answered, the loop never goes back to
\* receiving, and it returns at most once (once it has returned: exactly once).
C4_ShutdownIsTerminal ==
    [][ /\ ShutdownProcessed =>
               /\ received' = received
               /\ dispatched' = dispatched
               /\ outbox' = outbox
               /\ pc' \in {"awaitExit", "returned"}
               /\ pc = "returned" => UNCHANGED vars
        /\ ShutdownProcessed' =>
               /\ \A i \in 1..Len(received') :
                      IsShutdown(received'[i]) =>
                          /\ i = Len(received')
                          /\ \A d \in 1..Len(dispatched') :
                                 dispatched'[d] # received'[i].id
               /\ returns' = (IF pc' = "returned" THEN 1 ELSE 0)
      ]_vars

\* the loop has returned after a shutdown request; the message that followed
\* the shutdown request was taken by the shutdown handshake and left without
\* dispatch or answer: only the shutdown request itself was answered
C4_Witness ==
    /\ ShutdownProcessed
    /\ pc = "returned"
    /\ returns = 1
    /\ result = "Err"
    /\ sent > Len(received) + Len(inbox)
    /\ dispatched = <<>>
    /\ Len(outbox) = 1

\* a hover request that is a per-request failure: parameters that do not
\* decode, a cursor position with no word, or a token that is not indexed
PerRequestFailure(msg) ==
    /\ msg.kind = "Request"
    /\ msg.method = HoverMethod
    /\ \/ ~msg.params.decodes
       \/ ~get_word_from_file_params(msg.params).ok
       \/ \A a \in Arch :
              <<a, get_word_from_file_params(msg.params).value>>
                  \notin DOMAIN names_to_instructions

\* C5: a per-request failure is resolved to an empty-result response without
\* an error and leaves the loop in Idle, ready for the next message.
\* (Stated for steps taken while the outbound channel is connected.)
C5_FailuresRecoveredLocally ==
    [][ (/\ Receiving
         /\ writerAlive
         /\ PerRequestFailure(Head(inbox))
         /\ received' = Append(received, Head(inbox)))
        => /\ pc' = "idle"
           /\ Len(outbox') = Len(outbox) + 1
           /\ IsEmptyResult(outbox'[Len(outbox')])
           /\ outbox'[Len(outbox')].id = Head(inbox).id
      ]_vars

\* a request of a method that is neither shutdown nor hover
Unsupported(msg) ==
    /\ msg.kind = "Request"
    /\ msg.method \notin {ShutdownMethod, HoverMethod}

\* C6: a request whose method is neither shutdown nor hover gets no response
\* and leaves the loop in Idle: handling it does not change the outbound
\* channel, and no response ever carries its id.
C6_UnsupportedGetsNoResponse ==
    [][ /\ (/\ Receiving
            /\ Unsupported(Head(inbox))
            /\ received' # received)
           => /\ outbox' = outbox
              /\ pc' = "idle"
              /\ result' = result
              /\ received' = Append(received, Head(inbox))
        /\ \A i \in 1..Len(received') :
               Unsupported(received'[i]) =>
                   \A j \in 1..Len(outbox') : outbox'[j].id # received'[i].id
      ]_vars

\* an unsupported request was passed over and the loop then answered a
\* later hover request
C6_Witness ==
    \E i, k \in 1..Len(received) :
        /\ i < k
        /\ Unsupported(received[i])
        /\ Answers(received[i].id) = {}
        /\ k \in HoverRequests
        /\ Answers(received[k].id) # {}

\* C7: a notification or a response taken by the loop is discarded: the step
\* sends nothing, changes neither the storages nor the index nor the loop
\* state, and does not end the loop.
C7_NotificationsAndResponsesDiscarded ==
    [][ (/\ Receiving
         /\ Head(inbox).kind \in {"Notification", "Response"}
         /\ received' # received)
        => /\ outbox' = outbox
           /\ UNCHANGED startup
           /\ pc' = "idle"
           /\ result' = result
           /\ returns' = returns
           /\ dispatched' = dispatched
           /\ received' = Append(received, Head(inbox))
      ]_vars

\* a notification and a response were both taken and discarded: nothing
\* was sent and the loop is still receiving
C7_Witness ==
    /\ \E i, j \in 1..Len(received) :
           /\ received[i].kind = "Notification"
           /\ received[j].kind = "Response"
    /\ pc = "idle"
    /\ outbox = <<>>
    /\ result = "none"

\* main has built the storages and the index
Started == pc \in {"idle", "awaitExit", "returned"}

\* the loader's records for an architecture
Loaded(arch) == IF arch = "X86" THEN Xml_x86 ELSE Xml_x86_64

Storage(arch) == IF arch = "X86" THEN x86_instructions ELSE x86_64_instructions

Enabled(arch) == IF arch = "X86" THEN config.x86 ELSE config.x86_64

\* the forms of a loaded record that an enabled dialect recognises
Surviving(record) ==
    {f \in 1..Len(record.forms) : record.forms[f].dialects \cap config.dialects # {}}

\* C8: every Instruction reachable through the Index has at least one Form,
\* in every state; a record that the Target Filter leaves without Forms is
\* neither stored nor indexed.
C8_IndexedInstructionsHaveForms ==
    /\ \A k \in DOMAIN names_to_instructions :
           Len(names_to_instructions[k].forms) >= 1
    /\ \A a \in Arch : \A i \in 1..Len(Storage(a)) : Len(Storage(a)[i].forms) >= 1
    /\ Started =>
           \A a \in Arch : \A r \in 1..Len(Loaded(a)) :
               Surviving(Loaded(a)[r]) = {} =>
                   \A k \in DOMAIN names_to_instructions :
                       ~(/\ k[1] = a
                         /\ names_to_instructions[k].name = Loaded(a)[r].name)

\* the loop runs with an index that holds entries, after the filter emptied
\* a record that had forms
C8_Witness ==
    /\ pc = "idle"
    /\ received # <<>>
    /\ DOMAIN names_to_instructions # {}
    /\ \E a \in Arch : \E r \in 1..Len(Loaded(a)) :
           /\ Enabled(a)
           /\ Loaded(a)[r].forms # <<>>
           /\ Surviving(Loaded(a)[r]) = {}

\* C9: lookup is case-insensitive: two hover requests whose tokens differ in
\* letter case only get the same result.
C9_LookupIgnoresCase ==
    \A i, k \in HoverRequests :
        (/\ received[i].params.decodes /\ Token(i).ok
         /\ received[k].params.decodes /\ Token(k).ok
         /\ Lowercase(Token(i).value) = Lowercase(Token(k).value))
        => \A j \in Answers(received[i].id) : \A l \in Answers(received[k].id) :
               outbox[j].result = outbox[l].result

\* lowercase mnemonics present in both descriptions
SharedMnemonics ==
    {Lowercase(Xml_x86[i].name) : i \in 1..Len(Xml_x86)}
        \cap {Lowercase(Xml_x86_64[i].name) : i \in 1..Len(Xml_x86_64)}

\* C10: a mnemonic of both architectures is indexed once per architecture,
\* under (architecture, mnemonic), and each entry goes away with its
\* architecture: a disabled architecture has an empty storage and no key, a
\* hover on the shared mnemonic shows the enabled architecture's section
\* only, and with both disabled the answer is the empty result.
C10_EntriesPerArchitecture ==
    Started =>
        /\ \A a \in Arch : ~Enabled(a) =>
               /\ Storage(a) = <<>>
               /\ \A k \in DOMAIN names_to_instructions : k[1] # a
        /\ \A k \in DOMAIN names_to_instructions :
               /\ names_to_instructions[k].arch = k[1]
               /\ \E n \in 1..Len(Storage(k[1])) :
                      Storage(k[1])[n] = names_to_instructions[k]
        /\ \A m \in SharedMnemonics :
               (<<"X86", m>> \in DOMAIN names_to_instructions
                    /\ <<"X86_64", m>> \in DOMAIN names_to_instructions)
               => names_to_instructions[<<"X86", m>>]
                      # names_to_instructions[<<"X86_64", m>>]
        /\ \A i \in HoverRequests :
               (received[i].params.decodes /\ Token(i).ok
                    /\ Token(i).value \in SharedMnemonics)
               => \A j \in Answers(received[i].id) :
                      /\ (~config.x86 /\ ~config.x86_64) => IsEmptyResult(outbox[j])
                      /\ (~config.x86 /\ Matches(i, "X86_64")) =>
                             outbox[j].result.value =
                                 Render(names_to_instructions[<<"X86_64", Token(i).value>>])
                      /\ (~config.x86_64 /\ Matches(i, "X86")) =>
                             outbox[j].result.value =
                                 Render(names_to_instructions[<<"X86", Token(i).value>>])

\* with x86 disabled, a hover on the shared mnemonic was answered with the
\* x86_64 section alone
C10_Witness ==
    /\ ~config.x86
    /\ config.x86_64
    /\ \E i \in HoverRequests :
           /\ received[i].params.decodes
           /\ Token(i).ok
           /\ Token(i).value \in SharedMnemonics
           /\ Matches(i, "X86_64")
           /\ \E j \in Answers(received[i].id) : outbox[j].result.tag = "hover"

\* what the Target Filter makes of a loaded record
Filtered(record, arch) == filter_targets(SetArch(record, arch), config)

\* the filter at its two extremes, and what the index then holds
C11_FilterPart ==
    Started =>
        /\ config.dialects = Dialects =>
               \A a \in Arch : \A r \in 1..Len(Loaded(a)) :
                   /\ Len(Filtered(Loaded(a)[r], a).forms) = Len(Loaded(a)[r].forms)
                   /\ (Enabled(a) /\ Loaded(a)[r].forms # <<>>) =>
                          <<a, Lowercase(Loaded(a)[r].name)>>
                              \in DOMAIN names_to_instructions
        /\ config.dialects = {} =>
               /\ \A a \in Arch : \A r \in 1..Len(Loaded(a)) :
                      Filtered(Loaded(a)[r], a).forms = <<>>
               /\ DOMAIN names_to_instructions = {}

\* C11: with all dialects enabled the filter keeps every Form of every
\* Instruction (so every loaded Instruction that has Forms is indexed); with
\* no dialect enabled it keeps none, the index is empty, and every hover
\* request receives the empty-result response.
\* (The responses are stated while the outbound channel is connected.)
C11_FilterExtremes ==
    /\ C11_FilterPart
    /\ (Started /\ config.dialects = {} /\ writerAlive) =>
           \A i \in HoverRequests :
               \E j \in Answers(received[i].id) : IsEmptyResult(outbox[j])

\* the description of an enabled architecture does not parse
ParseFails == \E a \in Arch : Enabled(a) /\ ~xmlOk[a]

\* C12: a parse failure of the loader for an enabled architecture is fatal:
\* main returns an error, no storage and no index is built, main_loop is not
\* entered and nothing is received or answered; the description of a disabled
\* architecture is not parsed, so it cannot make the startup fail.
C12_ParseFailureIsFatal ==
    /\ (pc # "start" /\ ParseFails) =>
           /\ pc = "failed"
           /\ result = "Err"
           /\ names_to_instructions = EmptyMap
           /\ x86_instructions = <<>>
           /\ x86_64_instructions = <<>>
           /\ received = <<>>
           /\ dispatched = <<>>
           /\ outbox = <<>>
           /\ returns = 0
    /\ (pc # "start" /\ ~ParseFails) => pc # "failed"
    /\ pc = "start" => (received = <<>> /\ outbox = <<>>)

\* main has failed on a malformed description while a decodable hover
\* request waits in the channel, never to be answered
C12_Witness ==
    /\ pc = "failed"
    /\ ParseFails
    /\ inbox # <<>>
    /\ Head(inbox).kind = "Request"
    /\ Head(inbox).method = HoverMethod
    /\ Head(inbox).params.decodes
    /\ outbox = <<>>

\* the server runs although the description of a disabled architecture is
\* malformed: that description was never parsed
C12_DisabledNotParsed ==
    /\ pc = "idle"
    /\ \E a \in Arch : ~Enabled(a) /\ ~xmlOk[a]

\* C13 as stated: the loop terminates only through a shutdown request:
\* whenever main_loop has returned, a shutdown request has been processed.
C13_ReturnsOnlyOnShutdown == pc = "returned" => ShutdownProcessed

\* C13, amended: main_loop returns only in a step that completes the
\* shutdown handshake, or that finds the inbound channel empty and
\* disconnected (it then returns Ok), or in which sending a hover response
\* fails (it then returns Err); no other step ends the loop, and a returned
\* loop stays returned.
C13_ReturnsOnShutdownOrDisconnect ==
    [][ /\ (pc # "returned" /\ pc' = "returned") =>
               \/ pc = "awaitExit" /\ ShutdownProcessed
               \/ /\ pc = "idle" /\ inbox = <<>> /\ inClosed
                  /\ result' = "Ok" /\ received' = received
               \/ /\ pc = "idle" /\ inbox # <<>> /\ ~writerAlive
                  /\ Head(inbox).kind = "Request"
                  /\ Head(inbox).method = HoverMethod
                  /\ Head(inbox).params.decodes
                  /\ result' = "Err"
        /\ pc = "returned" => pc' = "returned"
      ]_vars

\* the loop has returned Ok without any shutdown request: the client went
\* away after a hover request that was answered
C13_Witness ==
    /\ pc = "returned"
    /\ ~ShutdownProcessed
    /\ result = "Ok"
    /\ inClosed
    /\ outbox # <<>>

\* C14: the storages and the index are read-only once main has built them:
\* no step of the loop or of its environment, whatever message it handles,
\* changes them, and the index always is the one built from the storages.
C14_IndexReadOnly ==
    [][ /\ Started =>
               /\ names_to_instructions' = names_to_instructions
               /\ x86_instructions' = x86_instructions
               /\ x86_64_instructions' = x86_64_instructions
               /\ config' = config
        /\ Started' =>
               names_to_instructions' = BuildIndex(x86_instructions', x86_64_instructions')
      ]_vars

\* the loop has answered a hover request from a non-empty index and has then
\* gone through a shutdown request
C14_Witness ==
    /\ pc = "returned"
    /\ ShutdownProcessed
    /\ dispatched # <<>>
    /\ outbox # <<>>
    /\ outbox[1].result.tag = "hover"
    /\ DOMAIN names_to_instructions # {}

\* the word characters: letters, digits, "_" and "%"
WordChars == (48..57) \cup (65..90) \cup (97..122) \cup {95, 37}

\* the cursor of the extractor run is on a word character of the document
ExOnWord ==
    /\ exLine < Len(exDoc)
    /\ exCol < Len(exDoc[exLine + 1])
    /\ exDoc[exLine + 1][exCol + 1] \in WordChars

\* C15: the extractor returns the maximal contiguous run of word characters
\* that contains the position, and fails with NotFound exactly when the
\* position is on a non-word character, on an empty line or outside the
\* document; the hover dispatch looks up exactly this word.
C15_ExtractorContract ==
    /\ exStage \in {"extracted", "dispatched"} =>
           /\ exWord.ok <=> ExOnWord
           /\ ~exWord.ok => exWord = NotFound
           /\ ExOnWord =>
                  LET text == exDoc[exLine + 1]
                  IN  \E s \in 1..(exCol + 1) : \E e \in (exCol + 1)..Len(text) :
                          /\ \A i \in s..e : text[i] \in WordChars
                          /\ s = 1 \/ text[s - 1] \notin WordChars
                          /\ e = Len(text) \/ text[e + 1] \notin WordChars
                          /\ exWord.value = [i \in 1..(e - s + 1) |-> text[s + i - 1]]
    /\ exStage = "dispatched" =>
           LET found == {a \in Arch : exWord.ok /\
                             <<a, exWord.value>> \in DOMAIN names_to_instructions}
           IN  /\ found = {} => IsEmptyResult(exResponse)
               /\ found # {} =>
                      /\ exResponse.result.tag = "hover"
                      /\ \A a \in found :
                             \E n \in 1..Len(exResponse.result.value) :
                                 SubSeq(exResponse.result.value, n,
                                        n + Len(Render(names_to_instructions[<<a, exWord.value>>])) - 1)
                                     = Render(names_to_instructions[<<a, exWord.value>>])

\* the extractor returned a word of several characters from a cursor inside
\* it, with other characters on the line, and the dispatch found it indexed
C15_Witness ==
    /\ exStage = "dispatched"
    /\ exWord.ok
    /\ exCol > 0
    /\ Len(exWord.value) > 1
    /\ Len(exWord.value) < Len(exDoc[exLine + 1])
    /\ exResponse.result.tag = "hover"

\* the extractor run is on the single-line text "mov eax, ebx"
ExOnMovLine ==
    /\ exStage = "extracted"
    /\ exDoc = <<Document[1]>>
    /\ exLine = 0

\* C16 as stated: on "mov eax, ebx", column 1 gives "mov", columns 3 and 11
\* fail with NotFound, column 5 gives "eax".
C16_MovLineAsStated ==
    ExOnMovLine =>
        /\ exCol = 1 => exWord = [ok |-> TRUE, value |-> <<109, 111, 118>>]
        /\ exCol \in {3, 11} => exWord = NotFound
        /\ exCol = 5 => exWord = [ok |-> TRUE, value |-> <<101, 97, 120>>]

\* C16, amended: on "mov eax, ebx", column 1 gives "mov", column 3 (the
\* space) fails with NotFound, column 5 gives "eax", and column 11 (the last
\* character, inside "ebx") gives "ebx".
C16_MovLine ==
    ExOnMovLine =>
        /\ exCol = 1 => exWord = [ok |-> TRUE, value |-> <<109, 111, 118>>]
        /\ exCol = 3 => exWord = NotFound
        /\ exCol = 5 => exWord = [ok |-> TRUE, value |-> <<101, 97, 120>>]
        /\ exCol = 11 => exWord = [ok |-> TRUE, value |-> <<101, 98, 120>>]

\* the extractor has run on "mov eax, ebx" at column 11
C16_Witness == ExOnMovLine /\ exCol = 11 /\ exWord.ok

\* the position in the log of received messages of the request with this id
ReceivedAt(id) ==
    {i \in 1..Len(received) : received[i].kind = "Request" /\ received[i].id = id}

\* C17 as stated: every Response sent answers a hover request already
\* received and carries its id, no id is answered twice, and the responses
\* leave in the order in which their requests were received.
C17_ResponsesAnswerHovers ==
    /\ \A j \in 1..Len(outbox) :
           /\ outbox[j].kind = "Response"
           /\ \E i \in HoverRequests : received[i].id = outbox[j].id
    /\ \A j, l \in 1..Len(outbox) : outbox[j].id = outbox[l].id => j = l
    /\ \A j, l \in 1..Len(outbox) : j < l =>
           \A a \in ReceivedAt(outbox[j].id) : \A b \in ReceivedAt(outbox[l].id) : a < b

\* C17, amended: every Response sent answers a request already received and
\* carries its id; that request is a hover request or the shutdown request
\* (which handle_shutdown answers with a null result); no id is answered
\* twice, and the responses leave in the order in which their requests were
\* received.
C17_ResponsesAnswerRequests ==
    /\ \A j \in 1..Len(outbox) :
           /\ outbox[j].kind = "Response"
           /\ \E i \in 1..Len(received) :
                  /\ received[i].id = outbox[j].id
                  /\ \/ i \in HoverRequests /\ outbox[j].result.tag \in {"string", "hover"}
                     \/ IsShutdown(received[i]) /\ outbox[j].result = JsonNull
    /\ \A j, l \in 1..Len(outbox) : outbox[j].id = outbox[l].id => j = l
    /\ \A j, l \in 1..Len(outbox) : j < l =>
           \A a \in ReceivedAt(outbox[j].id) : \A b \in ReceivedAt(outbox[l].id) : a < b

\* two hover requests were answered, in the order they were received
C17_Witness ==
    /\ Len(outbox) = 2
    /\ Len(received) = 2
    /\ \A i \in 1..2 : i \in HoverRequests /\ outbox[i].id = received[i].id

\* strictly increasing maps from the positions of a sequence into the
\* positions of another
Embeddings(short, long) ==
    {f \in [1..Len(short) -> 1..Len(long)] :
        \A i, j \in 1..Len(short) : i < j => f[i] < f[j]}

\* short is long with some elements left out, order kept
IsSubsequence(short, long) ==
    \E f \in Embeddings(short, long) : \A i \in 1..Len(short) : short[i] = long[f[i]]

\* C18: every stored Instruction carries the tag of its architecture and is
\* indexed under keys of that architecture only, and each storage is the
\* loader's output for its architecture with records left out and Forms left
\* out, nothing reordered and nothing duplicated.
C18_ArchConsistentOrderFaithful ==
    Started =>
        /\ \A a \in Arch :
               /\ \A n \in 1..Len(Storage(a)) : Storage(a)[n].arch = a
               /\ \E f \in Embeddings(Storage(a), Loaded(a)) :
                      \A n \in 1..Len(Storage(a)) :
                          /\ Storage(a)[n].name = Loaded(a)[f[n]].name
                          /\ Storage(a)[n].summary = Loaded(a)[f[n]].summary
                          /\ IsSubsequence(Storage(a)[n].forms, Loaded(a)[f[n]].forms)
        /\ \A k \in DOMAIN names_to_instructions :
               /\ k[1] \in Arch
               /\ names_to_instructions[k].arch = k[1]
               /\ k[2] = Lowercase(names_to_instructions[k].name)
               /\ \E n \in 1..Len(Storage(k[1])) :
                      Storage(k[1])[n] = names_to_instructions[k]
               /\ \A b \in Arch \ {k[1]} : \A n \in 1..Len(Storage(b)) :
                      Storage(b)[n] # names_to_instructions[k]

\* the loop runs with two x86_64 records stored in the loader's order and
\* with an x86 storage from which the filter has removed records
C18_Witness ==
    /\ pc = "idle"
    /\ received # <<>>
    /\ Len(x86_64_instructions) = 2
    /\ Len(x86_instructions) >= 1
    /\ Len(x86_instructions) < Len(Xml_x86) - 1
    /\ Cardinality(DOMAIN names_to_instructions) = 3

====
